---- MODULE Spec2Model ----
(***************************************************************************)
(* rbench: cross-compile a benchmark binary, start an EC2 instance, upload *)
(* the binary, run it over ssh and terminate the instance.                 *)
(*                                                                         *)
(* The model follows main (main.go) statement by statement, with the body  *)
(* of startInstance (aws.go) inlined as the steps RunInstances, waiter and *)
(* dial loop.  The background goroutine, the delivery of OS signals and    *)
(* the main goroutine interleave freely.                                   *)
(*                                                                         *)
(* Strings are sequences of tokens (characters where the value is          *)
(* formatted, whole literals elsewhere).  A nil error is the empty         *)
(* sequence.                                                               *)
(***************************************************************************)
EXTENDS Integers, Sequences, FiniteSets, TLC

VARIABLES
    flags,          \* the parsed command line flags (main.go:27-37)
    pc,             \* position of the main goroutine
    pcBg,           \* position of the background goroutine (main.go:84-109)
    proc,           \* "running", "returned", "exited", "killed", "panicked"
    sigChan,        \* the channel made at main.go:80
    notified,       \* signal.Notify has registered sigChan (main.go:82)
    benchFileName,  \* result of compileBenchmarkBinary
    goarch,         \* GOARCH the binary was built for
    initIn,         \* what the provider and the file system answered initAWS
    initOut,        \* what initAWS returned and whether it wrote the key file
    arch,           \* the parameter of startInstance
    ami,            \* the image passed to RunInstances
    created,        \* instance ids RunInstances has returned in this run
    siInstanceID,   \* startInstance's local instanceID
    siResult,       \* "none", "ok", "err": how startInstance returned
    siPublicIP,     \* startInstance's local publicIP
    probes,         \* the loop counter i of the dial loop
    instanceID,     \* main's instanceID
    publicIP,       \* main's publicIP
    terminateCalls, \* the ids passed to TerminateInstances, in order
    sshArgs,        \* the arguments of the ssh command built by sshExec
    log,            \* history: the external calls, in order
    failed,         \* history: the step whose error ended the run
    printed,        \* history: the steps whose error main printed
    sigCount,       \* history: number of signals delivered to the process
    sigAfterCreate  \* history: a signal arrived after RunInstances succeeded

vars == <<flags, pc, pcBg, proc, sigChan, notified, benchFileName,
          goarch, initIn, initOut, arch, ami, created, siInstanceID, siResult,
          siPublicIP, probes, instanceID, publicIP, terminateCalls, sshArgs, log, failed,
          printed, sigCount, sigAfterCreate>>

----------------------------------------------------------------------------
(* Bounds of the model *)

MaxSignals == 2

(* Program constants *)

MaxProbes == 5
MaxCount == 1
ChanCap == 1

archUnknown == 0
archArm == 1
archX86 == 2
InstanceArch == {archUnknown, archArm, archX86}

x86AMI == "ami-0ea3c35c5c3284d82"
armAMI == "ami-01ebf7c0e446f85f9"

Signals == {"SIGINT", "SIGTERM", "SIGHUP", "SIGQUIT"}

(* Inputs *)

Nil == <<>>

BenchValues == { <<".">>, <<"F", "o", "o">> }
RunValues == { <<"N", "O", "N", "E">> }
CountValues == {5, 20}
CpuValues == {-1, 0, 12}

InstanceIDs == {"i-0a", "i-0b"}
PublicIPs == { <<"3.14.15.92">> }
RandStrings == {"qwertyu"}

DuplicateErr == <<"api error", "InvalidKeyPair.Duplicate", "already exists">>
OtherErr == <<"api error", "UnauthorizedOperation">>
CreateKeyPairErrs == {Nil, DuplicateErr, OtherErr}
WriteFileErrs == {Nil, <<"permission denied">>}
CallErrs == {Nil, <<"exit status 1">>}

Steps == <<"gitCommitID", "compileBenchmarkBinary", "initAWS", "startInstance",
           "scp", "sshExec">>

----------------------------------------------------------------------------
(* Pure helpers *)

Digits == <<"0", "1", "2", "3", "4", "5", "6", "7", "8", "9">>

RECURSIVE FormatNat(_)
FormatNat(n) ==
    IF n < 10 THEN <<Digits[n + 1]>>
    ELSE FormatNat(n \div 10) \o <<Digits[(n % 10) + 1]>>

\* the verb %d
FormatInt(n) ==
    IF n < 0 THEN <<"-">> \o FormatNat(-n) ELSE FormatNat(n)

\* the verb %t
FormatBool(b) ==
    IF b THEN <<"t", "r", "u", "e">> ELSE <<"f", "a", "l", "s", "e">>

\* fmt.Sprintf / fmt.Errorf with a literal followed by one formatted value
Sprintf(lit, v) == <<lit>> \o v

\* strings.Contains
Contains(s, sub) ==
    \E i \in 1..(Len(s) + 1) :
        /\ i + Len(sub) - 1 <= Len(s)
        /\ SubSeq(s, i, i + Len(sub) - 1) = sub

privateKeyPath == <<"$HOME", "/.ssh/", "rbench-user", ".pem">>

----------------------------------------------------------------------------
(* The steps of main as functions of what the environment answers *)

\* gitCommitID (main.go:189-216): insideErr, headErr, statusErr are the
\* errors of the three git commands, dirty is len(out) > 0.
gitCommitID(insideErr, headErr, statusErr, dirty) ==
    IF insideErr # Nil THEN [id |-> <<"not a git repo">>, err |-> Nil]
    ELSE IF headErr # Nil THEN [id |-> <<>>, err |-> headErr]
    ELSE IF statusErr # Nil THEN [id |-> <<>>, err |-> statusErr]
    ELSE [id |-> <<"c0ffee">> \o (IF dirty THEN <<"-dirty">> ELSE <<>>),
          err |-> Nil]

\* compileBenchmarkBinary (main.go:166-187): runErr is the error of go test -c,
\* statErr the error of os.Stat, r the random suffix.
compileBenchmarkBinary(runErr, statErr, r) ==
    IF runErr # Nil
    THEN [fileName |-> <<>>, goarch |-> "amd64",
          err |-> Sprintf("failed to cross build the package:", runErr)]
    ELSE IF statErr # Nil
    THEN [fileName |-> <<>>, goarch |-> "amd64",
          err |-> Sprintf("binary not found:", statErr)]
    ELSE [fileName |-> <<"/tmp/bench-", r>>, goarch |-> "amd64", err |-> Nil]

\* initAWS with every CreateKeyPair error treated as fatal
initAWS_DuplicateFatal(in) ==
    IF in.configErr # Nil
    THEN [err |-> Sprintf("unable to load SDK config,", in.configErr),
          writeCalled |-> FALSE, wrote |-> FALSE]
    ELSE IF in.userErr # Nil
    THEN [err |-> Sprintf("unable to get user,", in.userErr),
          writeCalled |-> FALSE, wrote |-> FALSE]
    ELSE IF in.createErr = Nil
    THEN IF in.writeErr # Nil
         THEN [err |-> Sprintf("unable to write private key to file,", in.writeErr),
               writeCalled |-> TRUE, wrote |-> FALSE]
         ELSE [err |-> Nil, writeCalled |-> TRUE, wrote |-> TRUE]
    ELSE [err |-> in.createErr, writeCalled |-> FALSE, wrote |-> FALSE]

\* initAWS (aws.go:25-65): the errors of LoadDefaultConfig, GetUser,
\* CreateKeyPair and os.WriteFile; wrote says whether os.WriteFile was called
\* and succeeded.
initAWS(in) ==
    IF in.configErr # Nil
    THEN [err |-> Sprintf("unable to load SDK config,", in.configErr),
          writeCalled |-> FALSE, wrote |-> FALSE]
    ELSE IF in.userErr # Nil
    THEN [err |-> Sprintf("unable to get user,", in.userErr),
          writeCalled |-> FALSE, wrote |-> FALSE]
    ELSE IF in.createErr = Nil
    THEN IF in.writeErr # Nil
         THEN [err |-> Sprintf("unable to write private key to file,", in.writeErr),
               writeCalled |-> TRUE, wrote |-> FALSE]
         ELSE [err |-> Nil, writeCalled |-> TRUE, wrote |-> TRUE]
    ELSE IF ~Contains(in.createErr, <<"InvalidKeyPair.Duplicate">>)
    THEN [err |-> in.createErr, writeCalled |-> FALSE, wrote |-> FALSE]
    ELSE [err |-> Nil, writeCalled |-> FALSE, wrote |-> FALSE]

\* sshExecArgs with the test of cpuFlag off by one
sshExecArgs_CpuNotNegative(f, ip) ==
    LET args == << <<"-i">>, privateKeyPath,
                   Sprintf("ubuntu@", ip),
                   <<"cd /tmp && ./bench">>,
                   Sprintf("-test.bench=", f.bench),
                   Sprintf("-test.count=", FormatInt(f.count)),
                   Sprintf("-test.benchmem=", FormatBool(f.benchmem)),
                   Sprintf("-test.run=", f.run) >>
    IN  IF f.cpu >= 0
        THEN Append(args, Sprintf("-test.cpu=", FormatInt(f.cpu)))
        ELSE args

\* the argument list of the ssh command (main.go:121-131)
sshExecArgs(f, ip) ==
    LET args == << <<"-i">>, privateKeyPath,
                   Sprintf("ubuntu@", ip),
                   <<"cd /tmp && ./bench">>,
                   Sprintf("-test.bench=", f.bench),
                   Sprintf("-test.count=", FormatInt(f.count)),
                   Sprintf("-test.benchmem=", FormatBool(f.benchmem)),
                   Sprintf("-test.run=", f.run) >>
    IN  IF f.cpu > 0
        THEN Append(args, Sprintf("-test.cpu=", FormatInt(f.cpu)))
        ELSE args

\* instanceArch.GoString (aws.go:75-84)
GoString(a) ==
    IF a = archArm THEN "arm64"
    ELSE IF a = archX86 THEN "amd64"
    ELSE "unknown"

\* the image startInstance selects (aws.go:119-124)
selectAMI(a) == IF a = archArm THEN armAMI ELSE x86AMI

\* terminateInstance (aws.go:192-203): the call is issued whatever it returns.
\* Its error is printed by terminateInstance itself and returned to callers
\* that drop it, so neither outcome changes the state; printed keeps the
\* errors of the steps only.
terminateInstance(id) ==
    /\ terminateCalls' = Append(terminateCalls, id)
    /\ log' = Append(log, "TerminateInstances")
    /\ \E err \in CallErrs : printed' = printed

----------------------------------------------------------------------------
Init ==
    /\ flags \in [bench : BenchValues, count : CountValues, cpu : CpuValues,
                  benchmem : BOOLEAN, run : RunValues]
    /\ pc = "gitCommitID"
    /\ pcBg = "idle"
    /\ proc = "running"
    /\ sigChan = [made |-> FALSE, closed |-> FALSE, buf |-> <<>>]
    /\ notified = FALSE
    /\ benchFileName = <<>>
    /\ goarch = "none"
    /\ initIn = [configErr |-> Nil, userErr |-> Nil, createErr |-> Nil,
                 writeErr |-> Nil]
    /\ initOut = [called |-> FALSE, err |-> Nil, writeCalled |-> FALSE,
                  wrote |-> FALSE]
    /\ arch = archUnknown
    /\ ami = "none"
    /\ created = {}
    /\ siInstanceID = ""
    /\ siResult = "none"
    /\ siPublicIP = <<>>
    /\ probes = 0
    /\ instanceID = ""
    /\ publicIP = <<>>
    /\ terminateCalls = <<>>
    /\ sshArgs = <<>>
    /\ log = <<>>
    /\ failed = "none"
    /\ printed = {}
    /\ sigCount = 0
    /\ sigAfterCreate = FALSE

(* main, up to the call of startInstance *)

\* main.go:52-56.  commitID is only printed (main.go:101) and is not kept.
MainGitCommitID ==
    /\ proc = "running" /\ pc = "gitCommitID"
    /\ \E insideErr \in CallErrs, headErr \in CallErrs, statusErr \in CallErrs,
          dirty \in BOOLEAN :
        LET r == gitCommitID(insideErr, headErr, statusErr, dirty) IN
        /\ log' = Append(log, "gitCommitID")
        /\ IF r.err # Nil
           THEN /\ printed' = printed \cup {"gitCommitID"}
                /\ failed' = "gitCommitID"
                /\ proc' = "returned"
                /\ UNCHANGED pc
           ELSE /\ pc' = "compileBenchmarkBinary"
                /\ UNCHANGED <<printed, failed, proc>>
    /\ UNCHANGED <<flags, pcBg, sigChan, notified, benchFileName, goarch,
                   initIn, initOut, arch, ami, created, siInstanceID, siResult,
                   siPublicIP, probes, instanceID, publicIP, terminateCalls, sshArgs,
                   sigCount, sigAfterCreate>>

\* MainCompile going on to initAWS after a failed build
MainCompile_ContinueOnError ==
    /\ proc = "running" /\ pc = "compileBenchmarkBinary"
    /\ \E runErr \in CallErrs, statErr \in CallErrs, rs \in RandStrings :
        LET r == compileBenchmarkBinary(runErr, statErr, rs) IN
        /\ log' = Append(log, "compileBenchmarkBinary")
        /\ IF r.err # Nil
           THEN /\ printed' = printed \cup {"compileBenchmarkBinary"}
                /\ failed' = "compileBenchmarkBinary"
                /\ pc' = "initAWS"
                /\ UNCHANGED <<proc, benchFileName, goarch>>
           ELSE /\ benchFileName' = r.fileName
                /\ goarch' = r.goarch
                /\ pc' = "initAWS"
                /\ UNCHANGED <<printed, failed, proc>>
    /\ UNCHANGED <<flags, pcBg, sigChan, notified, initIn, initOut,
                   arch, ami, created, siInstanceID, siResult, siPublicIP,
                   probes, instanceID, publicIP, terminateCalls, sshArgs,
                   sigCount, sigAfterCreate>>

\* main.go:58-62
MainCompile ==
    /\ proc = "running" /\ pc = "compileBenchmarkBinary"
    /\ \E runErr \in CallErrs, statErr \in CallErrs, rs \in RandStrings :
        LET r == compileBenchmarkBinary(runErr, statErr, rs) IN
        /\ log' = Append(log, "compileBenchmarkBinary")
        /\ IF r.err # Nil
           THEN /\ printed' = printed \cup {"compileBenchmarkBinary"}
                /\ failed' = "compileBenchmarkBinary"
                /\ proc' = "returned"
                /\ UNCHANGED <<pc, benchFileName, goarch>>
           ELSE /\ benchFileName' = r.fileName
                /\ goarch' = r.goarch
                /\ pc' = "initAWS"
                /\ UNCHANGED <<printed, failed, proc>>
    /\ UNCHANGED <<flags, pcBg, sigChan, notified, initIn, initOut,
                   arch, ami, created, siInstanceID, siResult, siPublicIP, probes,
                   instanceID, publicIP, terminateCalls, sshArgs, sigCount,
                   sigAfterCreate>>

\* main.go:65-69
MainInitAWS ==
    /\ proc = "running" /\ pc = "initAWS"
    /\ \E in \in [configErr : CallErrs, userErr : CallErrs,
                  createErr : CreateKeyPairErrs, writeErr : WriteFileErrs] :
        LET r == initAWS(in) IN
        \* os.WriteFile answers only when it is called
        /\ ~r.writeCalled => in.writeErr = Nil
        /\ log' = Append(log, "initAWS")
        /\ initIn' = in
        /\ initOut' = [called |-> TRUE, err |-> r.err,
                       writeCalled |-> r.writeCalled, wrote |-> r.wrote]
        /\ IF r.err # Nil
           THEN /\ printed' = printed \cup {"initAWS"}
                /\ failed' = "initAWS"
                /\ proc' = "returned"
                /\ UNCHANGED pc
           ELSE /\ pc' = "RunInstances"
                /\ UNCHANGED <<printed, failed, proc>>
    /\ UNCHANGED <<flags, pcBg, sigChan, notified, benchFileName,
                   goarch, arch, ami, created, siInstanceID, siResult, siPublicIP, probes,
                   instanceID, publicIP, terminateCalls, sshArgs, sigCount,
                   sigAfterCreate>>

(* startInstance (aws.go:109-190), called at main.go:73 *)

\* aws.go:119-161: select the image, call RunInstances, check the result.
\* The caller at main.go:73 passes no argument, so the parameter arch ranges
\* over the values of its type.  RunInstances answers with an error or with
\* at most MaxCount instances.
SiRunInstances ==
    /\ proc = "running" /\ pc = "RunInstances"
    /\ \E a \in InstanceArch, err \in CallErrs, ids \in SUBSET InstanceIDs :
        /\ Cardinality(ids) <= MaxCount
        /\ arch' = a
        /\ ami' = selectAMI(a)
        /\ log' = Append(log, "RunInstances")
        /\ IF err # Nil
           THEN /\ siResult' = "err"
                /\ pc' = "startInstanceErr"
                /\ UNCHANGED <<created, siInstanceID>>
           ELSE /\ created' = ids
                /\ IF Cardinality(ids) # 1
                   THEN /\ siResult' = "err"
                        /\ pc' = "startInstanceErr"
                        /\ UNCHANGED siInstanceID
                   ELSE /\ siInstanceID' = CHOOSE id \in ids : TRUE
                        /\ pc' = "waiter"
                        /\ UNCHANGED siResult
    /\ UNCHANGED <<flags, pcBg, proc, sigChan, notified, benchFileName, goarch, initIn, initOut, siPublicIP, probes,
                   instanceID, publicIP, terminateCalls, sshArgs, failed,
                   printed, sigCount, sigAfterCreate>>

\* aws.go:164-174: wait until the instance is running
SiWaiter ==
    /\ proc = "running" /\ pc = "waiter"
    /\ \E err \in CallErrs, ip \in PublicIPs :
        IF err # Nil
        THEN /\ pc' = "siTerminate"
             /\ UNCHANGED <<siPublicIP, log>>
        ELSE /\ siPublicIP' = ip
             /\ log' = Append(log, "running")
             /\ pc' = "dial"
    /\ UNCHANGED <<flags, pcBg, proc, sigChan, notified, benchFileName, goarch, initIn, initOut, arch, ami, created,
                   siInstanceID, siResult, probes, instanceID, publicIP,
                   terminateCalls, sshArgs, failed, printed, sigCount,
                   sigAfterCreate>>

\* SiDial returning the error of the last failed dial without terminating
SiDial_NoTerminate ==
    /\ proc = "running" /\ pc = "dial" /\ probes < MaxProbes
    /\ \E err \in CallErrs :
        IF err = Nil
        THEN /\ log' = Append(log, "dialOK")
             /\ siResult' = "ok"
             /\ publicIP' = siPublicIP
             /\ instanceID' = siInstanceID
             /\ pc' = "notify"
             /\ UNCHANGED probes
        ELSE /\ log' = Append(log, "dialFail")
             /\ probes' = probes + 1
             /\ pc' = IF probes + 1 < MaxProbes THEN "dial"
                      ELSE "startInstanceErr"
             /\ siResult' = IF probes + 1 < MaxProbes THEN siResult ELSE "err"
             /\ UNCHANGED <<publicIP, instanceID>>
    /\ UNCHANGED <<flags, pcBg, proc, sigChan, notified,
                   benchFileName, goarch, initIn, initOut, arch, ami, created,
                   siInstanceID, siPublicIP, terminateCalls, sshArgs, failed,
                   printed, sigCount, sigAfterCreate>>

\* aws.go:178-186: one iteration of the dial loop; a successful dial returns
\* (publicIP, instanceID, nil) to main.go:73.
SiDial ==
    /\ proc = "running" /\ pc = "dial" /\ probes < MaxProbes
    /\ \E err \in CallErrs :
        IF err = Nil
        THEN /\ log' = Append(log, "dialOK")
             /\ siResult' = "ok"
             /\ publicIP' = siPublicIP
             /\ instanceID' = siInstanceID
             /\ pc' = "notify"
             /\ UNCHANGED probes
        ELSE /\ log' = Append(log, "dialFail")
             /\ probes' = probes + 1
             /\ pc' = IF probes + 1 < MaxProbes THEN "dial" ELSE "siTerminate"
             /\ UNCHANGED <<siResult, publicIP, instanceID>>
    /\ UNCHANGED <<flags, pcBg, proc, sigChan, notified, benchFileName, goarch, initIn, initOut, arch, ami, created,
                   siInstanceID, siPublicIP, terminateCalls, sshArgs, failed,
                   printed, sigCount, sigAfterCreate>>

\* aws.go:170-171 and aws.go:188-189: terminate and return the error
SiTerminate ==
    /\ proc = "running" /\ pc = "siTerminate"
    /\ terminateInstance(siInstanceID)
    /\ siResult' = "err"
    /\ pc' = "startInstanceErr"
    /\ UNCHANGED <<flags, pcBg, proc, sigChan, notified, benchFileName, goarch, initIn, initOut, arch, ami, created,
                   siInstanceID, siPublicIP, probes, instanceID, publicIP,
                   sshArgs, failed, sigCount, sigAfterCreate>>

(* main, after startInstance *)

\* MainStartInstanceErr printing the error and falling through to the cleanup
MainStartInstanceErr_FallThrough ==
    /\ proc = "running" /\ pc = "startInstanceErr"
    /\ printed' = printed \cup {"startInstance"}
    /\ failed' = "startInstance"
    /\ pc' = "terminate"
    /\ UNCHANGED <<flags, proc, pcBg, sigChan, notified, benchFileName,
                   goarch, initIn, initOut, arch, ami, created, siInstanceID,
                   siResult, siPublicIP, probes, instanceID, publicIP,
                   terminateCalls, sshArgs, log, sigCount, sigAfterCreate>>

\* main.go:74-77
MainStartInstanceErr ==
    /\ proc = "running" /\ pc = "startInstanceErr"
    /\ printed' = printed \cup {"startInstance"}
    /\ failed' = "startInstance"
    /\ proc' = "returned"
    /\ UNCHANGED <<flags, pc, pcBg, sigChan, notified, benchFileName,
                   goarch, initIn, initOut, arch, ami, created, siInstanceID,
                   siResult, siPublicIP, probes, instanceID, publicIP,
                   terminateCalls, sshArgs, log, sigCount, sigAfterCreate>>

\* main.go:80-82
MainNotify ==
    /\ proc = "running" /\ pc = "notify"
    /\ sigChan' = [made |-> TRUE, closed |-> FALSE, buf |-> <<>>]
    /\ notified' = TRUE
    /\ pc' = "go"
    /\ UNCHANGED <<flags, pcBg, proc, benchFileName, goarch, initIn,
                   initOut, arch, ami, created, siInstanceID, siResult,
                   siPublicIP, probes, instanceID, publicIP, terminateCalls,
                   sshArgs, log, failed, printed, sigCount, sigAfterCreate>>

\* main.go:84
MainGo ==
    /\ proc = "running" /\ pc = "go"
    /\ pcBg' = "scp"
    /\ pc' = "recv"
    /\ UNCHANGED <<flags, proc, sigChan, notified, benchFileName,
                   goarch, initIn, initOut, arch, ami, created, siInstanceID,
                   siResult, siPublicIP, probes, instanceID, publicIP,
                   terminateCalls, sshArgs, log, failed, printed, sigCount,
                   sigAfterCreate>>

\* MainRecv not waiting for the channel
MainRecv_NoWait ==
    /\ proc = "running" /\ pc = "recv"
    /\ sigChan' = [sigChan EXCEPT
                     !.buf = IF Len(@) > 0 THEN Tail(@) ELSE @]
    /\ pc' = "terminate"
    /\ UNCHANGED <<flags, pcBg, proc, notified, benchFileName,
                   goarch, initIn, initOut, arch, ami, created, siInstanceID,
                   siResult, siPublicIP, probes, instanceID, publicIP,
                   terminateCalls, sshArgs, log, failed, printed, sigCount,
                   sigAfterCreate>>

\* main.go:112: the receive returns a buffered signal, or the zero value once
\* the channel is closed and empty
MainRecv ==
    /\ proc = "running" /\ pc = "recv"
    /\ Len(sigChan.buf) > 0 \/ sigChan.closed
    /\ sigChan' = [sigChan EXCEPT
                     !.buf = IF Len(@) > 0 THEN Tail(@) ELSE @]
    /\ pc' = "terminate"
    /\ UNCHANGED <<flags, pcBg, proc, notified, benchFileName,
                   goarch, initIn, initOut, arch, ami, created, siInstanceID,
                   siResult, siPublicIP, probes, instanceID, publicIP,
                   terminateCalls, sshArgs, log, failed, printed, sigCount,
                   sigAfterCreate>>

\* main.go:113
MainTerminate ==
    /\ proc = "running" /\ pc = "terminate"
    /\ terminateInstance(instanceID)
    /\ pc' = "exit"
    /\ UNCHANGED <<flags, pcBg, proc, sigChan, notified, benchFileName, goarch, initIn, initOut, arch, ami, created,
                   siInstanceID, siResult, siPublicIP, probes, instanceID,
                   publicIP, sshArgs, failed, sigCount, sigAfterCreate>>

\* main.go:116
MainExit ==
    /\ proc = "running" /\ pc = "exit"
    /\ proc' = "exited"
    /\ log' = Append(log, "os.Exit")
    /\ UNCHANGED <<flags, pc, pcBg, sigChan, notified, benchFileName,
                   goarch, initIn, initOut, arch, ami, created, siInstanceID,
                   siResult, siPublicIP, probes, instanceID, publicIP,
                   terminateCalls, sshArgs, failed, printed, sigCount,
                   sigAfterCreate>>

(* the background goroutine (main.go:84-109) *)

\* BgScp returning after a failed upload without closing sigChan
BgScp_NoClose ==
    /\ proc = "running" /\ pcBg = "scp"
    /\ \E err \in CallErrs :
        IF err # Nil
        THEN /\ log' = log \o <<"scp", "scpFail">>
             /\ printed' = printed \cup {"scp"}
             /\ failed' = "scp"
             /\ pcBg' = "done"
        ELSE /\ log' = log \o <<"scp", "scpOK">>
             /\ pcBg' = "sshExec"
             /\ UNCHANGED <<printed, failed>>
    /\ UNCHANGED <<flags, pc, proc, sigChan, notified, benchFileName,
                   goarch, initIn, initOut, arch, ami, created, siInstanceID,
                   siResult, siPublicIP, probes, instanceID, publicIP,
                   terminateCalls, sshArgs, sigCount, sigAfterCreate>>

\* main.go:89-94
BgScp ==
    /\ proc = "running" /\ pcBg = "scp"
    /\ \E err \in CallErrs :
        IF err # Nil
        THEN /\ log' = log \o <<"scp", "scpFail">>
             /\ printed' = printed \cup {"scp"}
             /\ failed' = "scp"
             /\ pcBg' = "close92"
        ELSE /\ log' = log \o <<"scp", "scpOK">>
             /\ pcBg' = "sshExec"
             /\ UNCHANGED <<printed, failed>>
    /\ UNCHANGED <<flags, pc, proc, sigChan, notified, benchFileName,
                   goarch, initIn, initOut, arch, ami, created, siInstanceID,
                   siResult, siPublicIP, probes, instanceID, publicIP,
                   terminateCalls, sshArgs, sigCount, sigAfterCreate>>

\* main.go:104 with main.go:121-141: build the command and start it
BgSshExecStart ==
    /\ proc = "running" /\ pcBg = "sshExec"
    /\ sshArgs' = sshExecArgs(flags, publicIP)
    /\ \E err \in CallErrs :
        IF err # Nil
        THEN /\ log' = log \o <<"sshExec", "sshExecReturn">>
             /\ printed' = printed \cup {"sshExec"}
             /\ pcBg' = "close108"
        ELSE /\ log' = Append(log, "sshExec")
             /\ pcBg' = "sshWait"
             /\ UNCHANGED printed
    /\ UNCHANGED <<flags, pc, proc, sigChan, notified, benchFileName,
                   goarch, initIn, initOut, arch, ami, created, siInstanceID,
                   siResult, siPublicIP, probes, instanceID, publicIP,
                   terminateCalls, failed, sigCount, sigAfterCreate>>

\* main.go:148-152 with main.go:105-107: the command completes
BgSshExecWait ==
    /\ proc = "running" /\ pcBg = "sshWait"
    /\ log' = Append(log, "sshExecReturn")
    /\ \E err \in CallErrs :
        printed' = IF err # Nil THEN printed \cup {"sshExec"} ELSE printed
    /\ pcBg' = "close108"
    /\ UNCHANGED <<flags, pc, proc, sigChan, notified, benchFileName,
                   goarch, initIn, initOut, arch, ami, created, siInstanceID,
                   siResult, siPublicIP, probes, instanceID, publicIP,
                   terminateCalls, sshArgs, failed, sigCount, sigAfterCreate>>

\* main.go:92 and main.go:108
BgClose ==
    /\ proc = "running" /\ pcBg \in {"close92", "close108"}
    /\ sigChan' = [sigChan EXCEPT !.closed = TRUE]
    /\ pcBg' = "done"
    /\ UNCHANGED <<flags, pc, proc, notified, benchFileName, goarch,
                   initIn, initOut, arch, ami, created, siInstanceID, siResult,
                   siPublicIP, probes, instanceID, publicIP, terminateCalls,
                   sshArgs, log, failed, printed, sigCount, sigAfterCreate>>

(* the operating system delivers a signal to the process *)

\* Before signal.Notify (main.go:82) the Go runtime's default action ends the
\* process.  Afterwards os/signal sends on sigChan without blocking: the
\* signal is buffered if there is room and dropped otherwise, and a send on
\* the closed channel panics.
Signal ==
    /\ proc = "running" /\ sigCount < MaxSignals
    /\ \E s \in Signals :
        /\ sigCount' = sigCount + 1
        /\ sigAfterCreate' = (sigAfterCreate \/ created # {})
        /\ IF ~notified
           THEN /\ proc' = "killed"
                /\ UNCHANGED sigChan
           ELSE IF sigChan.closed
           THEN /\ proc' = "panicked"
                /\ UNCHANGED sigChan
           ELSE IF Len(sigChan.buf) < ChanCap
           THEN /\ sigChan' = [sigChan EXCEPT !.buf = Append(@, s)]
                /\ UNCHANGED proc
           ELSE UNCHANGED <<sigChan, proc>>
    /\ UNCHANGED <<flags, pc, pcBg, notified, benchFileName, goarch,
                   initIn, initOut, arch, ami, created, siInstanceID, siResult,
                   siPublicIP, probes, instanceID, publicIP, terminateCalls,
                   sshArgs, log, failed, printed>>

----------------------------------------------------------------------------
Main ==
    \/ MainGitCommitID
    \/ MainCompile
    \/ MainInitAWS
    \/ SiRunInstances
    \/ SiWaiter
    \/ SiDial
    \/ SiTerminate
    \/ MainStartInstanceErr
    \/ MainNotify
    \/ MainGo
    \/ MainRecv
    \/ MainTerminate
    \/ MainExit

Background ==
    \/ BgScp
    \/ BgSshExecStart
    \/ BgSshExecWait
    \/ BgClose

Next == Main \/ Background \/ Signal

Spec == Init /\ [][Next]_vars

\* The Go scheduler runs every runnable goroutine; the external commands and
\* API calls are taken to return.  Signals are under no obligation to arrive.
DefaultFlags == [bench |-> <<".">>, count |-> 5, cpu |-> 0, benchmem |-> FALSE,
                 run |-> <<"N", "O", "N", "E">>]

InitDefault == Init /\ flags = DefaultFlags

FairSpec ==
    InitDefault /\ [][Next]_vars /\ WF_vars(Main) /\ WF_vars(Background)

----------------------------------------------------------------------------
(* Reading the history *)

Count(ev) == Cardinality({i \in DOMAIN log : log[i] = ev})

\* every occurrence of ev comes after an occurrence of one of evs
Preceded(ev, evs) ==
    \A i \in DOMAIN log :
        log[i] = ev => \E j \in 1..(i - 1) : log[j] \in evs

StepEvent(s) == IF s = "startInstance" THEN "RunInstances" ELSE s

\* the steps that come after step s in the sequence of a run
LaterSteps(s) ==
    {Steps[j] : j \in {k \in DOMAIN Steps :
                         \E i \in DOMAIN Steps : Steps[i] = s /\ i < k}}

(* Reading the ssh command line back *)

DigitValue(c) == CHOOSE d \in 0..9 : Digits[d + 1] = c

RECURSIVE ParseNat(_)
ParseNat(s) ==
    IF Len(s) = 1 THEN DigitValue(s[1])
    ELSE 10 * ParseNat(SubSeq(s, 1, Len(s) - 1)) + DigitValue(s[Len(s)])

ParseInt(s) == IF s[1] = "-" THEN 0 - ParseNat(Tail(s)) ELSE ParseNat(s)

ParseBool(s) == s = <<"t", "r", "u", "e">>

\* position of the remote command in the argument list
BenchCommandAt(args) ==
    {i \in DOMAIN args : args[i] = <<"cd /tmp && ./bench">>}

\* the values given to the remote command for the option opt
RemoteOption(args, opt) ==
    LET cmd == BenchCommandAt(args) IN
    {Tail(args[i]) : i \in {j \in DOMAIN args :
                              /\ Len(args[j]) >= 1
                              /\ Head(args[j]) = opt
                              /\ \E b \in cmd : b < j}}

----------------------------------------------------------------------------
(* Termination of the instance *)

\* C1: once a signal has arrived after RunInstances created the instance,
\* the process does not end without TerminateInstances having been issued
\* exactly once for that instance.
C1_SignalTerminatesOnce ==
    (proc # "running" /\ sigAfterCreate) =>
        /\ Len(terminateCalls) = 1
        /\ terminateCalls[1] \in created

\* C2: when startInstance has returned successfully and no signal arrives,
\* the background task closes sigChan, main then issues TerminateInstances
\* for instanceID and afterwards exits; and this end is reached.
C2_CompletionTerminatesThenExits ==
    /\ [](proc = "exited" /\ sigCount = 0 =>
            /\ sigChan.closed
            /\ pcBg = "done"
            /\ terminateCalls = <<instanceID>>
            /\ Preceded("TerminateInstances", {"scpFail", "sshExecReturn"})
            /\ Preceded("os.Exit", {"TerminateInstances"}))
    /\ (siResult = "ok" /\ sigCount = 0) ~>
            \/ proc = "exited" /\ terminateCalls = <<instanceID>>
            \/ sigCount > 0

C2_Witness ==
    /\ proc = "exited" /\ sigCount = 0
    /\ siResult = "ok"
    /\ Count("scpFail") = 1
    /\ terminateCalls = <<instanceID>>

\* C7: startInstance returns an error after it created an instance only
\* once it has called TerminateInstances for that instance, the error after
\* a running instance being the error of MaxProbes failed dials; and it
\* returns success only after a dial succeeded within MaxProbes attempts.
C7_StartInstanceCleansUp ==
    /\ (siResult = "err" /\ created # {}) =>
            /\ Len(terminateCalls) = 1
            /\ terminateCalls[1] = siInstanceID
            /\ created = {siInstanceID}
            /\ Count("running") = 1 => Count("dialFail") = MaxProbes
    /\ siResult = "ok" =>
            /\ Count("dialOK") = 1
            /\ Count("dialFail") < MaxProbes
            /\ Preceded("TerminateInstances", {"dialOK"})
    /\ Count("dialFail") + Count("dialOK") <= MaxProbes

C7_Witness ==
    /\ siResult = "err"
    /\ Count("dialFail") = MaxProbes
    /\ terminateCalls = <<siInstanceID>>

\* C8: TerminateInstances is issued at most once in a run, only with the id
\* RunInstances returned, and not before RunInstances succeeded; after
\* startInstance terminated the instance, main issues no second call.
C8_TerminateAtMostOnce ==
    /\ Len(terminateCalls) <= 1
    /\ \A i \in DOMAIN terminateCalls : terminateCalls[i] \in created
    /\ Preceded("TerminateInstances", {"RunInstances"})
    /\ Count("TerminateInstances") = Len(terminateCalls)
    /\ (siResult = "err" /\ proc # "running") =>
            (Len(terminateCalls) = 1 <=> created # {})

C8_Witness ==
    /\ proc = "returned"
    /\ failed = "startInstance"
    /\ Len(terminateCalls) = 1
    /\ terminateCalls[1] \in created

\* C9: no signal is sent on sigChan after it has been closed, so no panic
\* ends the process.
C9_NoSendOnClosedChannel == proc # "panicked"

\* C10: the architecture the binary is built for is the architecture of the
\* image that is launched.
C10_BinaryMatchesImage ==
    ami # "none" =>
        goarch = (IF ami = armAMI THEN GoString(archArm) ELSE GoString(archX86))

----------------------------------------------------------------------------
(* The steps and their order *)

\* C3: a CreateKeyPair error containing "InvalidKeyPair.Duplicate" makes
\* initAWS return nil without touching the key file, and the run goes on; any
\* other CreateKeyPair error is returned as it is; on success the key is
\* written, and a failed write is returned as an error.
C3_KeyPairIdempotent ==
    (initOut.called /\ initIn.configErr = Nil /\ initIn.userErr = Nil) =>
        /\ Contains(initIn.createErr, <<"InvalidKeyPair.Duplicate">>) =>
                /\ initOut.err = Nil
                /\ ~initOut.writeCalled
                /\ failed # "initAWS"
                /\ pc = "initAWS" => proc # "returned"
        /\ (initIn.createErr # Nil
              /\ ~Contains(initIn.createErr, <<"InvalidKeyPair.Duplicate">>)) =>
                /\ initOut.err = initIn.createErr
                /\ ~initOut.writeCalled
                /\ failed = "initAWS"
        /\ initIn.createErr = Nil =>
                /\ initOut.writeCalled
                /\ initIn.writeErr # Nil =>
                        (initOut.err # Nil /\ ~initOut.wrote /\ failed = "initAWS")
                /\ initIn.writeErr = Nil =>
                        (initOut.err = Nil /\ initOut.wrote /\ failed # "initAWS")

C3_Witness ==
    /\ initOut.called
    /\ initIn.createErr = DuplicateErr
    /\ Count("RunInstances") = 1

\* C4 as stated: the remote command carries each of the five flags with the
\* value given locally.
C4_AllFlagsForwarded ==
    sshArgs # <<>> =>
        /\ RemoteOption(sshArgs, "-test.bench=") = {flags.bench}
        /\ RemoteOption(sshArgs, "-test.run=") = {flags.run}
        /\ Cardinality(RemoteOption(sshArgs, "-test.count=")) = 1
        /\ \A v \in RemoteOption(sshArgs, "-test.count=") :
                ParseInt(v) = flags.count
        /\ Cardinality(RemoteOption(sshArgs, "-test.benchmem=")) = 1
        /\ \A v \in RemoteOption(sshArgs, "-test.benchmem=") :
                /\ v \in {<<"t", "r", "u", "e">>, <<"f", "a", "l", "s", "e">>}
                /\ ParseBool(v) = flags.benchmem
        /\ Cardinality(RemoteOption(sshArgs, "-test.cpu=")) = 1
        /\ \A v \in RemoteOption(sshArgs, "-test.cpu=") :
                ParseInt(v) = flags.cpu

\* C4: the remote command carries -bench, -count, -benchmem and -run with the
\* value given locally; it carries -cpu as -test.cpu with that value when
\* the value is positive and carries no -test.cpu otherwise.
C4_FlagsForwarded ==
    sshArgs # <<>> =>
        /\ RemoteOption(sshArgs, "-test.bench=") = {flags.bench}
        /\ RemoteOption(sshArgs, "-test.run=") = {flags.run}
        /\ Cardinality(RemoteOption(sshArgs, "-test.count=")) = 1
        /\ \A v \in RemoteOption(sshArgs, "-test.count=") :
                ParseInt(v) = flags.count
        /\ Cardinality(RemoteOption(sshArgs, "-test.benchmem=")) = 1
        /\ \A v \in RemoteOption(sshArgs, "-test.benchmem=") :
                /\ v \in {<<"t", "r", "u", "e">>, <<"f", "a", "l", "s", "e">>}
                /\ ParseBool(v) = flags.benchmem
        /\ IF flags.cpu > 0
           THEN /\ Cardinality(RemoteOption(sshArgs, "-test.cpu=")) = 1
                /\ \A v \in RemoteOption(sshArgs, "-test.cpu=") :
                        ParseInt(v) = flags.cpu
           ELSE RemoteOption(sshArgs, "-test.cpu=") = {}

C4_Witness ==
    /\ sshArgs # <<>>
    /\ flags.cpu > 0
    /\ flags.benchmem
    /\ flags.count = 20

\* C5: no step is attempted twice; the error of a failing step is printed and
\* no later step of the sequence is performed; no instance is launched after
\* a failed build or initAWS, no benchmark is run after a failed upload.
C5_FailFast ==
    /\ \A i \in DOMAIN Steps : Count(StepEvent(Steps[i])) <= 1
    /\ failed # "none" =>
            /\ failed \in printed
            /\ \A s \in LaterSteps(failed) : Count(StepEvent(s)) = 0
    /\ failed \in {"gitCommitID", "compileBenchmarkBinary", "initAWS"} =>
            (created = {} /\ Count("RunInstances") = 0)
    /\ failed = "scp" => (sshArgs = <<>> /\ Count("sshExec") = 0)
    /\ (initOut.called /\ initOut.err # Nil) => failed = "initAWS"
    /\ Count("initAWS") = 1 => goarch # "none"
    /\ (siResult = "err" /\ Count("scp") = 0 /\ proc = "returned") =>
            failed = "startInstance"
    /\ Count("scpFail") = 1 => failed = "scp"

C5_Witness ==
    /\ failed = "scp"
    /\ proc = "exited"
    /\ Count("sshExec") = 0

\* the order of the steps up to the benchmark
StepOrder ==
    /\ Preceded("RunInstances", {"compileBenchmarkBinary"})
    /\ Count("RunInstances") > 0 => goarch # "none"
    /\ Preceded("dialOK", {"running"})
    /\ Preceded("dialFail", {"running"})
    /\ Preceded("running", {"RunInstances"})
    /\ Preceded("scp", {"dialOK"})
    /\ Preceded("sshExec", {"scpOK"})
    /\ Count("scpOK") + Count("scpFail") <= 1

\* C6 as stated: the order of the steps, and, absent a signal, termination
\* only after the benchmark has returned or the upload has failed.
C6_OrderTerminateLast ==
    /\ StepOrder
    /\ sigCount = 0 =>
            Preceded("TerminateInstances", {"sshExecReturn", "scpFail"})

\* C6: the order of the steps, and, absent a signal, in a run whose
\* startInstance succeeded, termination only after the benchmark has
\* returned or the upload has failed; startInstance itself terminates the
\* instance only after the waiter or MaxProbes dials have failed.
C6_Order ==
    /\ StepOrder
    /\ (sigCount = 0 /\ siResult = "ok") =>
            Preceded("TerminateInstances", {"sshExecReturn", "scpFail"})
    /\ (siResult # "ok" /\ Count("TerminateInstances") > 0) =>
            /\ Preceded("TerminateInstances", {"RunInstances"})
            /\ Count("running") = 0 \/ Count("dialFail") = MaxProbes

C6_Witness ==
    /\ proc = "exited"
    /\ sigCount = 0
    /\ Count("sshExecReturn") = 1
    /\ Count("TerminateInstances") = 1

====
